---- MODULE Spec2Model ----
(***************************************************************************)
(* A model of the iFlow chat-completions proxy.                            *)
(*                                                                         *)
(* Two builds of the same server exist: src/server.js (the creative        *)
(* writing build: it injects a system prompt, and filters reasoning markup *)
(* out of the upstream answer) and src/unnamed/part_000 (the plain build:  *)
(* it forwards the request and pipes the answer).  The variable `variant`  *)
(* says which build is running.                                            *)
(*                                                                         *)
(* Text is modelled as a sequence of characters, each a one-character      *)
(* string; a character outside ASCII is named by its code point            *)
(* ("U+00E9").  The upstream body is a sequence of bytes: an ASCII byte is *)
(* written as its character, a byte of a multi-byte UTF-8 sequence as its  *)
(* value ("0xC3").                                                         *)
(***************************************************************************)
EXTENDS Integers, Sequences, FiniteSets, TLC

VARIABLES
    variant,        \* "creative" (src/server.js) or "plain" (src/unnamed/part_000)
    IFLOW_API_KEY,  \* TRUE when process.env.IFLOW_API_KEY was set at start
    pc,             \* where the one request in the model is
    req,            \* the inbound request, until the handler stops reading it
    iflowRequest,   \* the request in flight to the upstream, or None
    upstreamCalled, \* whether axios.post was called for this request
    resStatus,      \* HTTP status of the answer (0: none sent yet)
    resType,        \* what the answer's body is
    resContent,     \* choices[0].message.content of a buffered JSON answer
    headersSent,    \* the SSE headers were set: the streamed answer has begun
    resEnded,       \* res.end() was called (res.json ends the answer too)
    written,        \* every text handed to res.write / pipe, in order
    upstreamBody,   \* the bytes of the upstream's streamed body
    pos,            \* how many of them have been delivered in 'data' events
    upstreamState,  \* "none", "open", "ended" or "errored"
    buffer,         \* the relay's partial-line buffer (server.js:165)
    decoded,        \* every chunk.toString() so far, concatenated
    uncaught,       \* an 'error' event found no listener
    cleanIn,        \* an input of cleanResponse
    cleanOnce,      \* cleanResponse(cleanIn)
    cleanTwice,     \* cleanResponse(cleanResponse(cleanIn))
    cleanStage      \* how many times cleanResponse was applied to cleanIn

vars == <<variant, IFLOW_API_KEY, pc, req, iflowRequest, upstreamCalled,
          resStatus, resType, resContent, headersSent, resEnded, written,
          upstreamBody, pos, upstreamState, buffer, decoded, uncaught,
          cleanIn, cleanOnce, cleanTwice, cleanStage>>

serverVars == <<variant, IFLOW_API_KEY, pc, req, iflowRequest, upstreamCalled,
                resStatus, resType, resContent, headersSent, resEnded, written,
                upstreamBody, pos, upstreamState, buffer, decoded, uncaught>>

cleanVars == <<cleanIn, cleanOnce, cleanTwice, cleanStage>>

(***************************************************************************)
(* Bounds of the model.                                                    *)
(***************************************************************************)
\* lines in one upstream streamed body
MaxLines == 2
\* messages in one request
MaxMsgs == 2
\* pieces concatenated into one input of cleanResponse
MaxPieces == 3
\* bytes in one chunk of a streamed body, unless the chunk is all that is left
MaxChunk == 2

Absent == "undefined"

(***************************************************************************)
(* Strings.                                                                *)
(***************************************************************************)
NL == "\n"

Min(S) == CHOOSE x \in S : \A y \in S : x <= y

RECURSIVE Concat(_)
\* the concatenation of a sequence of texts
Concat(ss) == IF ss = <<>> THEN <<>> ELSE Head(ss) \o Concat(Tail(ss))

\* the characters the patterns of cleanResponse hold in two cases
UpperToLower ==
    [c \in {"T", "H", "I", "N", "K", "G", "R", "E", "A", "S", "O"} |->
        CASE c = "T" -> "t" [] c = "H" -> "h" [] c = "I" -> "i" [] c = "N" -> "n"
          [] c = "K" -> "k" [] c = "G" -> "g" [] c = "R" -> "r" [] c = "E" -> "e"
          [] c = "A" -> "a" [] c = "S" -> "s" [] c = "O" -> "o"]

\* the /i flag: characters are compared in one case
Fold(c) == IF c \in DOMAIN UpperToLower THEN UpperToLower[c] ELSE c

\* pat occurs in text at index i, exactly
MatchAt(text, pat, i) ==
    /\ i >= 1
    /\ i + Len(pat) - 1 <= Len(text)
    /\ \A k \in 1..Len(pat) : text[i + k - 1] = pat[k]

\* pat occurs in text at index i, whatever the case of the letters
MatchAtI(text, pat, i) ==
    /\ i >= 1
    /\ i + Len(pat) - 1 <= Len(text)
    /\ \A k \in 1..Len(pat) : Fold(text[i + k - 1]) = Fold(pat[k])

\* String.prototype.startsWith
StartsWith(text, pat) == MatchAt(text, pat, 1)

\* String.prototype.includes
Includes(text, pat) == \E i \in 1..Len(text) : MatchAt(text, pat, i)

\* the first index >= from where pat occurs (case-insensitive), or 0
IndexOfI(text, pat, from) ==
    LET S == {i \in from..(Len(text) - Len(pat) + 1) : MatchAtI(text, pat, i)}
    IN  IF S = {} THEN 0 ELSE Min(S)

RECURSIVE Split(_)
\* String.prototype.split('\n')
Split(text) ==
    LET S == {i \in 1..Len(text) : text[i] = NL}
        m == Min(S)
    IN  IF S = {} THEN <<text>>
        ELSE <<SubSeq(text, 1, m - 1)>> \o Split(SubSeq(text, m + 1, Len(text)))

\* what \s matches, among the characters of the model
IsSpace(c) == c \in {" ", "\n", "\t", "\r"}

\* String.prototype.trim, broken: one leading white space character is removed
TrimOneLeading(text) ==
    IF text # <<>> /\ IsSpace(text[1]) THEN Tail(text) ELSE text

\* String.prototype.trim
Trim(text) ==
    LET S == {i \in 1..Len(text) : ~IsSpace(text[i])}
    IN  IF S = {} THEN <<>>
        ELSE SubSeq(text, Min(S), CHOOSE j \in S : \A k \in S : k <= j)

(***************************************************************************)
(* cleanResponse (server.js:73-90).                                        *)
(***************************************************************************)
ThinkOpen ==
    <<"<", "t", "h", "i", "n", "k", ">">>
ThinkClose ==
    <<"<", "/", "t", "h", "i", "n", "k", ">">>
ThinkingOpen ==
    <<"<", "t", "h", "i", "n", "k", "i", "n", "g", ">">>
ThinkingClose ==
    <<"<", "/", "t", "h", "i", "n", "k", "i", "n", "g", ">">>
ReasoningOpen ==
    <<"[", "R", "e", "a", "s", "o", "n", "i", "n", "g", "]">>
ReasoningClose ==
    <<"[", "/", "R", "e", "a", "s", "o", "n", "i", "n", "g", "]">>
\* the localized "thinking" tag pair of server.js:81
LocalOpen == <<"[", "U+601D", "U+8003", "]">>
LocalClose == <<"[", "/", "U+601D", "U+8003", "]">>

RECURSIVE ReplaceFrom(_, _, _, _)
\* text.replace(/open[\s\S]*?close/gi, ''), from index `from` on: the leftmost
\* opening delimiter, up to the first closing delimiter after it, is removed, and
\* the search goes on after the removed span
ReplaceFrom(text, open, close, from) ==
    LET i == IndexOfI(text, open, from)
        j == IF i = 0 THEN 0 ELSE IndexOfI(text, close, i + Len(open))
    IN  IF i = 0 \/ j = 0 THEN SubSeq(text, from, Len(text))
        ELSE SubSeq(text, from, i - 1) \o ReplaceFrom(text, open, close, j + Len(close))

ReplaceAll(text, open, close) == ReplaceFrom(text, open, close, 1)

cleanResponse(text) ==
    IF text = <<>> THEN text
    ELSE Trim(ReplaceAll(ReplaceAll(ReplaceAll(ReplaceAll(text,
                ThinkOpen, ThinkClose),
                ReasoningOpen, ReasoningClose),
                LocalOpen, LocalClose),
                ThinkingOpen, ThinkingClose))

\* some opening delimiter of cleanResponse is followed by its closing delimiter
HasSpan(text) ==
    \E p \in {<<ThinkOpen, ThinkClose>>, <<ReasoningOpen, ReasoningClose>>,
              <<LocalOpen, LocalClose>>, <<ThinkingOpen, ThinkingClose>>} :
        LET i == IndexOfI(text, p[1], 1)
        IN  i # 0 /\ IndexOfI(text, p[2], i + Len(p[1])) # 0

\* some delimiter of cleanResponse occurs in the text
HasDelimiter(text) ==
    \E d \in {ThinkOpen, ThinkClose, ReasoningOpen, ReasoningClose,
              LocalOpen, LocalClose, ThinkingOpen, ThinkingClose} :
        IndexOfI(text, d, 1) # 0

(***************************************************************************)
(* The JSON payloads of the model.  JSONParse is JSON.parse on the         *)
(* payloads the upstream lines of the model hold: a chunk object with a    *)
(* delta content, and text that is no JSON.                                *)
(***************************************************************************)
ContentOpen ==
    <<"{", "\"", "c", "h", "o", "i", "c", "e", "s", "\"", ":", "[", "{", "\"", "d", "e", "l",
      "t", "a", "\"", ":", "{", "\"", "c", "o", "n", "t", "e", "n", "t", "\"", ":", "\"">>
ContentClose ==
    <<"\"", "}", "}", "]", "}">>

\* a character a JSON string holds as it is
PlainChar(c) == c \notin {"\"", "\\", "\n", "\r", "\t"}

JSONParse(payload) ==
    IF /\ Len(payload) >= Len(ContentOpen) + Len(ContentClose)
       /\ MatchAt(payload, ContentOpen, 1)
       /\ MatchAt(payload, ContentClose, Len(payload) - Len(ContentClose) + 1)
       /\ \A i \in (Len(ContentOpen) + 1)..(Len(payload) - Len(ContentClose)) :
              PlainChar(payload[i])
    THEN [kind |-> "object",
          content |-> SubSeq(payload, Len(ContentOpen) + 1,
                             Len(payload) - Len(ContentClose))]
    ELSE [kind |-> "SyntaxError", content |-> <<>>]

JSONStringify(data) == ContentOpen \o data.content \o ContentClose

(***************************************************************************)
(* The streaming relay of server.js (lines 165-196).                       *)
(***************************************************************************)
DataPrefix ==
    <<"d", "a", "t", "a", ":", " ">>
DoneMarker ==
    <<"[", "D", "O", "N", "E", "]">>

LeadBytes == {"0xC3"}
ContinuationBytes == {"0xA9"}

\* the character a two-byte sequence encodes
CodePoint(lead, cont) == "U+00E9"

\* chunk.toString(): each chunk is decoded as UTF-8 on its own, and a byte
\* sequence the chunk does not complete becomes U+FFFD
Utf8Decode(bytes) ==
    LET n == Len(bytes)
        Completes(i) == i > 1 /\ bytes[i] \in ContinuationBytes
                              /\ bytes[i - 1] \in LeadBytes
        Char(i) ==
            IF bytes[i] \in LeadBytes
            THEN IF i < n /\ bytes[i + 1] \in ContinuationBytes
                 THEN CodePoint(bytes[i], bytes[i + 1]) ELSE "U+FFFD"
            ELSE IF bytes[i] \in ContinuationBytes THEN "U+FFFD"
            ELSE bytes[i]
        kept == SelectSeq([i \in 1..n |-> i], LAMBDA i : ~Completes(i))
    IN  [k \in 1..Len(kept) |-> Char(kept[k])]

\* server.js:175, the line of a [DONE] event
DoneWriteTwoNewlines(line) == <<line \o <<NL, NL>>>>

DoneWrite(line) == <<line \o <<NL>>>>

\* server.js:186, the catch clause: nothing is written
CatchWriteNothing(line) == <<>>

CatchWrite(line) == <<line \o <<NL>>>>

\* server.js:180-183
CleanDelta(data) ==
    IF data.content # <<>>
    THEN [data EXCEPT !.content = cleanResponse(@)]
    ELSE data

\* server.js:184
EventWrite(data) == <<DataPrefix \o JSONStringify(data) \o <<NL, NL>>>>

\* server.js:171-189, the callback of lines.forEach: the texts it writes
ForEachLine(line) ==
    IF StartsWith(line, DataPrefix)
    THEN IF Includes(line, DoneMarker)
         THEN DoneWrite(line)
         ELSE LET data == JSONParse(SubSeq(line, Len(DataPrefix) + 1, Len(line)))
              IN  IF data.kind = "SyntaxError"
                  THEN CatchWrite(line)
                  ELSE EventWrite(CleanDelta(data))
    ELSE <<>>

RECURSIVE WritesOf(_)
\* lines.forEach(...): the texts written for a sequence of lines
WritesOf(lines) ==
    IF lines = <<>> THEN <<>> ELSE ForEachLine(Head(lines)) \o WritesOf(Tail(lines))

\* server.js:169, the partial line is forgotten
RetainedBufferDropped(lines) == <<>>

\* server.js:169, buffer = lines.pop() || ''
RetainedBuffer(lines) == lines[Len(lines)]

\* server.js:169, what lines.pop() leaves in lines
CompleteLines(lines) == SubSeq(lines, 1, Len(lines) - 1)

(***************************************************************************)
(* The upstream's streamed bodies.                                         *)
(***************************************************************************)
UpstreamLines == {
    \* data: {"choices":[{"delta":{"content":"Hello"}}]}
    DataPrefix \o ContentOpen \o <<"H", "e", "l", "l", "o">> \o ContentClose,
    \* a delta that begins with a space
    DataPrefix \o ContentOpen \o <<" ", "w", "o", "r", "l", "d">> \o ContentClose,
    \* a delta with reasoning markup and a two-byte character
    DataPrefix \o ContentOpen \o ThinkOpen \o <<"x">> \o ThinkClose
        \o <<"0xC3", "0xA9">> \o ContentClose,
    \* the end-of-stream sentinel
    DataPrefix \o DoneMarker,
    \* the blank line that ends an event
    <<>>,
    \* a comment (keep-alive) line
    <<":", " ", "p", "i", "n", "g">>,
    \* a data line that is no JSON
    DataPrefix \o <<"{", "o", "o", "p", "s">> }

\* the body made of these lines, each ended by a newline
StreamBody(ls) == Concat([i \in 1..Len(ls) |-> ls[i] \o <<NL>>])

StreamBodies ==
    {StreamBody(ls) : ls \in UNION {[1..k -> UpstreamLines] : k \in 1..MaxLines}}

\* the sizes of the next chunk when `left` bytes are to come: a few bytes, or all
ChunkSizes(left) == {n \in 1..MaxChunk : n <= left} \cup (IF left > 0 THEN {left} ELSE {})

\* choices[0].message.content of the upstream's buffered answers
Completions == {
    <<"A">> \o ThinkOpen \o <<"s">> \o ThinkClose \o <<"B">>,
    <<" ", "o", "k", " ">>,
    <<>> }

(***************************************************************************)
(* Requests.  A field the body does not hold is "undefined"; numbers are   *)
(* written as their text.                                                  *)
(***************************************************************************)
\* server.js:30-39 (the same table in part_000)
MODELS ==
    [m \in {"gpt-3.5-turbo", "gpt-4", "gpt-4-turbo", "gpt-4o", "claude-3-opus",
            "claude-3-sonnet", "gemini-pro", "deepseek-v3.2"} |-> "deepseek-v3.2"]

\* MODELS[model] || 'deepseek-v3.2'
MapModel(model) == IF model \in DOMAIN MODELS THEN MODELS[model] ELSE "deepseek-v3.2"

\* server.js:42-45
CREATIVE_WRITING_PROMPT ==
    [role |-> "system",
     content |->
        <<"Y", "o", "u", " ", "m", "u", "s", "t", " ", "r", "e", "s", "p", "o", "n",
          "d", " ", "O", "N", "L", "Y", " ", "i", "n", " ", "E", "n", "g", "l", "i",
          "s", "h", ".", " ", "Y", "o", "u", " ", "a", "r", "e", " ", "a", " ", "c",
          "r", "e", "a", "t", "i", "v", "e", " ", "w", "r", "i", "t", "i", "n", "g",
          " ", "a", "s", "s", "i", "s", "t", "a", "n", "t", ".", " ", "W", "r", "i",
          "t", "e", " ", "e", "n", "g", "a", "g", "i", "n", "g", ",", " ", "v", "i",
          "v", "i", "d", " ", "n", "a", "r", "r", "a", "t", "i", "v", "e", "s", ".",
          " ", "D", "o", " ", "n", "o", "t", " ", "s", "h", "o", "w", " ", "r", "e",
          "a", "s", "o", "n", "i", "n", "g", " ", "o", "r", " ", "t", "h", "i", "n",
          "k", "i", "n", "g", " ", "p", "r", "o", "c", "e", "s", "s", " ", "-", " ",
          "p", "r", "o", "v", "i", "d", "e", " ", "d", "i", "r", "e", "c", "t", " ",
          "c", "r", "e", "a", "t", "i", "v", "e", " ", "r", "e", "s", "p", "o", "n",
          "s", "e", "s", ".", " ", "F", "o", "c", "u", "s", " ", "o", "n", " ", "i",
          "m", "m", "e", "r", "s", "i", "v", "e", " ", "s", "t", "o", "r", "y", "t",
          "e", "l", "l", "i", "n", "g", ".">>]

\* server.js:133, the text put before an existing system prompt
EnglishDirective ==
    <<"I", "M", "P", "O", "R", "T", "A", "N", "T", ":", " ", "R", "e", "s", "p", "o",
      "n", "d", " ", "O", "N", "L", "Y", " ", "i", "n", " ", "E", "n", "g", "l", "i",
      "s", "h", ".", " ", "D", "o", " ", "n", "o", "t", " ", "s", "h", "o", "w", " ",
      "r", "e", "a", "s", "o", "n", "i", "n", "g", ".", " ">>

Roles == {"system", "user"}

Contents == {<<"H", "i">>}

Messages == [role : Roles, content : Contents]

MessageLists == UNION {[1..k -> Messages] : k \in 0..MaxMsgs}

\* the values of the body's messages field: none, an object that is no array
\* (such as {}), or an array of messages
MessagesValues ==
    {[kind |-> "undefined", items |-> <<>>], [kind |-> "object", items |-> <<>>]}
        \cup {[kind |-> "array", items |-> l] : l \in MessageLists}

NoRequest == [kind |-> "none"]

\* the requests of POST /v1 and POST /v1/chat/completions: a body that is no
\* JSON, or a JSON object
Requests ==
    {[kind |-> "unparseable"]}
        \cup [kind : {"json"},
              model : {Absent, "", "gpt-4", "my-model"},
              messages : MessagesValues,
              temperature : {Absent, "0"},
              max_tokens : {Absent, "0", "100"},
              stream : {Absent, "true", "false"}]

\* !model || !messages (server.js:110, part_000:84)
MissingFields(r) == r.model \in {Absent, ""} \/ r.messages.kind = "undefined"

\* the two checks, the fields first
EarlyResponseFieldsFirst(key, r) ==
    IF MissingFields(r) THEN "invalid_request_error"
    ELSE IF ~key THEN "server_error"
    ELSE "continue"

\* the two checks, the second one on the model alone
EarlyResponseModelOnly(key, r) ==
    IF ~key THEN "server_error"
    ELSE IF r.model \in {Absent, ""} THEN "invalid_request_error"
    ELSE "continue"

\* server.js:98-117, part_000:72-91: the early returns of processChat
EarlyResponse(key, r) ==
    IF ~key THEN "server_error"
    ELSE IF MissingFields(r) THEN "invalid_request_error"
    ELSE "continue"

\* server.js:128-134
finalMessages(messages) ==
    IF messages # <<>> /\ messages[1].role = "system"
    THEN [messages EXCEPT ![1].content = EnglishDirective \o @]
    ELSE <<CREATIVE_WRITING_PROMPT>> \o messages

\* server.js:120-143 and part_000:94-107: the request sent to the upstream
BuildRequest(v, r) ==
    [kind |-> "sent",
     model |-> MapModel(r.model),
     messages |-> IF v = "creative"
                  THEN [kind |-> "array", items |-> finalMessages(r.messages.items)]
                  ELSE r.messages,
     temperature |-> IF r.temperature # Absent THEN r.temperature
                     ELSE IF v = "creative" THEN "0.9" ELSE "0.7",
     max_tokens |-> IF r.max_tokens \in {Absent, "0"} THEN "8192" ELSE r.max_tokens,
     stream |-> IF r.stream = Absent THEN "false" ELSE r.stream]

(***************************************************************************)
(* The server.                                                             *)
(***************************************************************************)
NoStream ==
    /\ upstreamBody = <<>>
    /\ pos = 0
    /\ upstreamState = "none"
    /\ buffer = <<>>
    /\ decoded = <<>>
    /\ written = <<>>

NoAnswer ==
    /\ resStatus = 0
    /\ resType = "none"
    /\ resContent = <<>>
    /\ headersSent = FALSE
    /\ resEnded = FALSE

Idle ==
    /\ pc = "idle"
    /\ req = NoRequest
    /\ iflowRequest = NoRequest
    /\ upstreamCalled = FALSE
    /\ uncaught = FALSE
    /\ NoAnswer
    /\ NoStream

NoClean ==
    /\ cleanIn = <<>>
    /\ cleanOnce = <<>>
    /\ cleanTwice = <<>>
    /\ cleanStage = 0

\* the process after app.listen: either build, with or without the key
Init ==
    /\ variant \in {"creative", "plain"}
    /\ IFLOW_API_KEY \in BOOLEAN
    /\ Idle
    /\ NoClean

\* res.status(status).json({error: {type, ...}}), or res.json(data)
Respond(status, type, content) ==
    /\ resStatus' = status
    /\ resType' = type
    /\ resContent' = content
    /\ resEnded' = TRUE
    /\ pc' = "done"

\* A request arrives at the chat endpoint: express.json() (line 7) parses the
\* body, then processChat runs to its first await or to a return.
ReceiveRequest(r) ==
    /\ pc = "idle"
    /\ req' = r
    /\ UNCHANGED <<variant, IFLOW_API_KEY, headersSent, written, upstreamBody, pos,
                   upstreamState, buffer, decoded, uncaught, cleanVars>>
    /\ IF r.kind = "unparseable"
       THEN \* the body parser answers 400; processChat is never called
            /\ Respond(400, "parse_error", <<>>)
            /\ UNCHANGED <<iflowRequest, upstreamCalled>>
       ELSE IF EarlyResponse(IFLOW_API_KEY, r) = "server_error"
       THEN /\ Respond(500, "server_error", <<>>)
            /\ UNCHANGED <<iflowRequest, upstreamCalled>>
       ELSE IF EarlyResponse(IFLOW_API_KEY, r) = "invalid_request_error"
       THEN /\ Respond(400, "invalid_request_error", <<>>)
            /\ UNCHANGED <<iflowRequest, upstreamCalled>>
       ELSE IF variant = "creative" /\ r.messages.kind = "object"
       THEN \* [...messages] throws a TypeError: the catch clause answers
            /\ Respond(500, "api_error", <<>>)
            /\ UNCHANGED <<iflowRequest, upstreamCalled>>
       ELSE /\ iflowRequest' = BuildRequest(variant, r)
            /\ upstreamCalled' = TRUE
            /\ pc' = "awaiting"
            /\ UNCHANGED <<resStatus, resType, resContent, resEnded>>

\* axios.post rejects: no answer (status 0), or an error status
UpstreamFail(status) ==
    /\ pc = "awaiting"
    /\ Respond(IF status = 0 THEN 500 ELSE status, "api_error", <<>>)
    /\ req' = NoRequest
    /\ iflowRequest' = NoRequest
    /\ UNCHANGED <<variant, IFLOW_API_KEY, upstreamCalled, headersSent, written,
                   upstreamBody, pos, upstreamState, buffer, decoded, uncaught,
                   cleanVars>>

\* the upstream answers a request that is not streamed
UpstreamJson(content) ==
    /\ pc = "awaiting"
    /\ iflowRequest.stream # "true"
    /\ Respond(200, "completion",
               IF variant = "creative" /\ content # <<>>
               THEN cleanResponse(content) ELSE content)
    /\ req' = NoRequest
    /\ iflowRequest' = NoRequest
    /\ UNCHANGED <<variant, IFLOW_API_KEY, upstreamCalled, headersSent, written,
                   upstreamBody, pos, upstreamState, buffer, decoded, uncaught,
                   cleanVars>>

\* the upstream begins the answer to a streamed request: the SSE headers are set
\* and the handlers are registered (server.js:160-196, part_000:124-127)
UpstreamStream(body) ==
    /\ pc = "awaiting"
    /\ iflowRequest.stream = "true"
    /\ pc' = "streaming"
    /\ resStatus' = 200
    /\ resType' = "event-stream"
    /\ headersSent' = TRUE
    /\ upstreamBody' = body
    /\ upstreamState' = "open"
    /\ req' = NoRequest
    /\ iflowRequest' = NoRequest
    /\ UNCHANGED <<variant, IFLOW_API_KEY, upstreamCalled, resContent, resEnded,
                   written, pos, buffer, decoded, uncaught, cleanVars>>

\* a 'data' event with the next n bytes of the body
OnData(n) ==
    /\ pc = "streaming"
    /\ upstreamState = "open"
    /\ n <= Len(upstreamBody) - pos
    /\ pos' = pos + n
    /\ LET chunk == SubSeq(upstreamBody, pos + 1, pos + n)
           text == Utf8Decode(chunk)
           lines == Split(buffer \o text)
       IN  IF variant = "creative"
           THEN /\ buffer' = RetainedBuffer(lines)
                /\ written' = written \o WritesOf(CompleteLines(lines))
                /\ decoded' = decoded \o text
           ELSE \* response.data.pipe(res): the chunk is written as it is (the
                \* writes of the pipe are kept joined, as the caller reads them)
                /\ written' = <<Concat(written) \o chunk>>
                /\ UNCHANGED <<buffer, decoded>>
    /\ UNCHANGED <<variant, IFLOW_API_KEY, pc, req, iflowRequest, upstreamCalled,
                   resStatus, resType, resContent, headersSent, resEnded,
                   upstreamBody, upstreamState, uncaught, cleanVars>>

\* the 'end' event, after the last byte: res.end() (server.js:192; pipe ends its
\* destination when the source ends)
OnEnd ==
    /\ pc = "streaming"
    /\ upstreamState = "open"
    /\ pos = Len(upstreamBody)
    /\ upstreamState' = "ended"
    /\ resEnded' = TRUE
    /\ pc' = "done"
    /\ UNCHANGED <<variant, IFLOW_API_KEY, req, iflowRequest, upstreamCalled,
                   resStatus, resType, resContent, headersSent, written,
                   upstreamBody, pos, buffer, decoded, uncaught, cleanVars>>

\* the 'error' event of the upstream stream.  server.js:193-196 ends the answer.
\* part_000 only pipes: pipe neither ends its destination on a source error nor
\* listens for it, so the event is uncaught unless the HTTP client library
\* still listens.
OnError(listened) ==
    /\ pc = "streaming"
    /\ upstreamState = "open"
    /\ upstreamState' = "errored"
    /\ pc' = "done"
    /\ IF variant = "creative"
       THEN resEnded' = TRUE /\ uncaught' = FALSE
       ELSE resEnded' = FALSE /\ uncaught' = ~listened
    /\ UNCHANGED <<variant, IFLOW_API_KEY, req, iflowRequest, upstreamCalled,
                   resStatus, resType, resContent, headersSent, written,
                   upstreamBody, pos, buffer, decoded, cleanVars>>

\* the request is over, the process lives: the next request finds fresh state
NextRequest ==
    /\ pc = "done"
    /\ ~uncaught
    /\ pc' = "idle"
    /\ req' = NoRequest
    /\ iflowRequest' = NoRequest
    /\ upstreamCalled' = FALSE
    /\ uncaught' = FALSE
    /\ resStatus' = 0
    /\ resType' = "none"
    /\ resContent' = <<>>
    /\ headersSent' = FALSE
    /\ resEnded' = FALSE
    /\ upstreamBody' = <<>>
    /\ pos' = 0
    /\ upstreamState' = "none"
    /\ buffer' = <<>>
    /\ decoded' = <<>>
    /\ written' = <<>>
    /\ UNCHANGED <<variant, IFLOW_API_KEY, cleanVars>>

Next ==
    \/ \E r \in Requests : ReceiveRequest(r)
    \/ \E s \in {0, 401, 429} : UpstreamFail(s)
    \/ \E c \in Completions : UpstreamJson(c)
    \/ \E b \in StreamBodies : UpstreamStream(b)
    \/ \E n \in ChunkSizes(Len(upstreamBody) - pos) : OnData(n)
    \/ OnEnd
    \/ \E l \in BOOLEAN : OnError(l)
    \/ NextRequest

Spec == Init /\ [][Next]_vars

(***************************************************************************)
(* cleanResponse on its own: the specification SpecClean applies it once   *)
(* and then again to each text made of a few pieces.                       *)
(***************************************************************************)
CleanPieces == {
    \* a complete span
    <<"<", "t", "h", "i", "n", "k", ">", "a", "<", "/", "t", "h", "i", "n", "k", ">">>,
    \* the head of an opening delimiter
    <<"<", "t", "h", "i">>,
    \* the rest of it, and a closing delimiter
    <<"n", "k", ">", "b", "<", "/", "t", "h", "i", "n", "k", ">">>,
    \* a span in another case
    <<"<", "T", "H", "I", "N", "K", "I", "N", "G", ">", "c", "<", "/", "t", "h", "i",
      "n", "k", "i", "n", "g", ">">>,
    \* a bracketed span
    <<"[", "r", "e", "a", "s", "o", "n", "i", "n", "g", "]", "d", "[", "/", "R", "e",
      "a", "s", "o", "n", "i", "n", "g", "]">>,
    \* a localized span
    <<"[", "U+601D", "U+8003", "]", "e", "[", "/", "U+601D", "U+8003", "]">>,
    \* a lone opening delimiter
    <<"<", "t", "h", "i", "n", "k", ">">>,
    \* a lone closing delimiter
    <<"<", "/", "t", "h", "i", "n", "k", ">">>,
    \* white space
    <<" ">>,
    \* plain text
    <<"x">> }

CleanInputs ==
    {Concat(ps) : ps \in UNION {[1..k -> CleanPieces] : k \in 0..MaxPieces}}

CleanInit ==
    /\ variant = "creative"
    /\ IFLOW_API_KEY = TRUE
    /\ Idle
    /\ cleanIn \in CleanInputs
    /\ cleanOnce = <<>>
    /\ cleanTwice = <<>>
    /\ cleanStage = 0

\* cleanResponse is applied to the input
CleanFirst ==
    /\ cleanStage = 0
    /\ cleanOnce' = cleanResponse(cleanIn)
    /\ cleanStage' = 1
    /\ UNCHANGED <<cleanIn, cleanTwice, serverVars>>

\* cleanResponse is applied to its own result
CleanAgain ==
    /\ cleanStage = 1
    /\ cleanTwice' = cleanResponse(cleanOnce)
    /\ cleanStage' = 2
    /\ UNCHANGED <<cleanIn, cleanOnce, serverVars>>

CleanNext == CleanFirst \/ CleanAgain

SpecClean == CleanInit /\ [][CleanNext]_vars

(***************************************************************************)
(* What the relay has received, for the statements about it.               *)
(***************************************************************************)
\* the complete lines of the text the relay has decoded so far
ReceivedLines == CompleteLines(Split(decoded))

\* those that begin with the data prefix, in order
ReceivedData == SelectSeq(ReceivedLines, LAMBDA l : StartsWith(l, DataPrefix))

\* a data line with the [DONE] sentinel
IsDone(l) == StartsWith(l, DataPrefix) /\ Includes(l, DoneMarker)

\* a data line whose payload is JSON
IsEvent(l) ==
    /\ StartsWith(l, DataPrefix)
    /\ ~Includes(l, DoneMarker)
    /\ JSONParse(SubSeq(l, Len(DataPrefix) + 1, Len(l))).kind = "object"

\* a data line whose payload is no JSON
IsBadData(l) ==
    /\ StartsWith(l, DataPrefix)
    /\ ~Includes(l, DoneMarker)
    /\ JSONParse(SubSeq(l, Len(DataPrefix) + 1, Len(l))).kind = "SyntaxError"

\* the content of a data line that is an event
ReceivedContent(l) == JSONParse(SubSeq(l, Len(DataPrefix) + 1, Len(l))).content

\* the content of an event written to the caller ("data: ", JSON, two newlines)
EmittedContent(w) == JSONParse(SubSeq(w, Len(DataPrefix) + 1, Len(w) - 2)).content

\* the indices of the received data lines that are events
EventIndices == {i \in 1..Len(ReceivedData) : IsEvent(ReceivedData[i])}

RECURSIVE ConcatOver(_, _, _)
\* f[1] \o ... \o f[n], over the indices in S
ConcatOver(f, S, n) ==
    IF n = 0 THEN <<>>
    ELSE ConcatOver(f, S, n - 1) \o (IF n \in S THEN f[n] ELSE <<>>)

(***************************************************************************)
(* C1.  Chunking does not matter: whatever the cuts, the texts written to  *)
(* the caller are those written when the bytes delivered so far arrive as  *)
(* one chunk.                                                              *)
(***************************************************************************)
C1_ChunkingInvariant ==
    variant = "creative" =>
        written = WritesOf(CompleteLines(Split(Utf8Decode(SubSeq(upstreamBody, 1, pos)))))

C3_DoneForwardedRelayGoesOn ==
    variant = "creative" =>
        LET data == ReceivedData
        IN  \A i \in 1..Len(data) :
                IsDone(data[i]) =>
                    /\ i <= Len(written)
                    /\ written[i] = data[i] \o <<NL>>
                    /\ \A j \in (i + 1)..Len(data) :
                           /\ j <= Len(written)
                           /\ <<written[j]>> = ForEachLine(data[j])

\* C3, witness: the [DONE] line was written, and after it an event
C3_Witness ==
    /\ variant = "creative"
    /\ Len(ReceivedData) = 2
    /\ IsDone(ReceivedData[1])
    /\ IsEvent(ReceivedData[2])
    /\ Len(written) = 2
    /\ written[1] = DataPrefix \o DoneMarker \o <<NL>>

\* C3, as stated: once the [DONE] line is written, nothing more is written
C3_NothingAfterDone ==
    variant = "creative" =>
        \A i \in 1..Len(written) :
            written[i] = DataPrefix \o DoneMarker \o <<NL>> => i = Len(written)

(***************************************************************************)
(* C4, as amended.  With the API key set, a request whose JSON body lacks  *)
(* model or messages is answered 400, invalid_request_error, and no call   *)
(* is made to the upstream, in both builds.                                *)
(***************************************************************************)
C4_MissingFields400 ==
    (IFLOW_API_KEY /\ req.kind = "json" /\ MissingFields(req)) =>
        /\ pc = "done"
        /\ resStatus = 400
        /\ resType = "invalid_request_error"
        /\ resEnded
        /\ ~upstreamCalled

\* C4, witness: the plain build answered 400 to a body with a model and no messages
C4_Witness ==
    /\ variant = "plain"
    /\ IFLOW_API_KEY
    /\ req.kind = "json"
    /\ req.model = "gpt-4"
    /\ req.messages.kind = "undefined"
    /\ resStatus = 400
    /\ resType = "invalid_request_error"

\* C4, as stated: a request whose body lacks model or messages is answered 400,
\* invalid_request_error, whatever the configuration
C4_MissingFieldsAlways400 ==
    (req.kind = "json" /\ MissingFields(req)) =>
        /\ resStatus = 400
        /\ resType = "invalid_request_error"
        /\ ~upstreamCalled

(***************************************************************************)
(* C5, as amended.  With the API key unset, every request whose body the   *)
(* JSON body parser accepts is answered 500, server_error; no request      *)
(* reaches the upstream, and the process goes on to the next request.      *)
(***************************************************************************)
C5_KeyUnset500 ==
    ~IFLOW_API_KEY =>
        /\ ~upstreamCalled
        /\ ~uncaught
        /\ pc \in {"idle", "done"}
        /\ pc = "done" => ENABLED NextRequest
        /\ req.kind = "json" =>
               /\ pc = "done"
               /\ resStatus = 500
               /\ resType = "server_error"
               /\ resEnded

\* C5, witness: a complete request was answered 500 because the key is unset
C5_Witness ==
    /\ ~IFLOW_API_KEY
    /\ req.kind = "json"
    /\ ~MissingFields(req)
    /\ req.messages.kind = "array"
    /\ resStatus = 500
    /\ resType = "server_error"

\* C5, as stated: with the key unset every request, whatever its body, is
\* answered 500, server_error
C5_KeyUnsetAlways500 ==
    (~IFLOW_API_KEY /\ req.kind # "none") =>
        /\ resStatus = 500
        /\ resType = "server_error"

(***************************************************************************)
(* C6.  Once the upstream stream has ended or failed, the answer to the    *)
(* caller is closed and no error went uncaught, in both builds.            *)
(***************************************************************************)
C6_StreamClosedQuietly ==
    upstreamState \in {"ended", "errored"} => (resEnded /\ ~uncaught)

(***************************************************************************)
(* C7, as amended.  cleanResponse applied twice gives what it gives        *)
(* applied once, for every text whose first cleaning leaves no opening     *)
(* delimiter followed by its closing delimiter.                            *)
(***************************************************************************)
C7_IdempotentWhenNoSpanLeft ==
    (cleanStage = 2 /\ ~HasSpan(cleanOnce)) => cleanTwice = cleanOnce

\* C7, witness: markup was removed, none is left, and the text was cleaned again
C7_Witness ==
    /\ cleanStage = 2
    /\ HasSpan(cleanIn)
    /\ ~HasSpan(cleanOnce)
    /\ cleanOnce # <<>>

\* C7, as stated: cleanResponse(cleanResponse(x)) = cleanResponse(x) for every x
C7_Idempotent == cleanStage = 2 => cleanTwice = cleanOnce

(***************************************************************************)
(* C8.  The writes to the caller are, one for one and in order, those of   *)
(* the complete data lines received: none is missing, doubled, merged or   *)
(* out of place.                                                           *)
(***************************************************************************)
C8_OneWritePerDataLineInOrder ==
    variant = "creative" =>
        LET data == ReceivedData
        IN  /\ Len(written) = Len(data)
            /\ \A i \in 1..Len(written) : <<written[i]>> = ForEachLine(data[i])

\* C8, witness: two different data lines were relayed, the second one an event
C8_Witness ==
    /\ variant = "creative"
    /\ Len(written) = 2
    /\ written[1] # written[2]
    /\ IsEvent(ReceivedData[1])
    /\ IsEvent(ReceivedData[2])

(***************************************************************************)
(* C9.  In the creative build every request that passes validation is      *)
(* sent upstream with a leading system message: the fixed prompt put       *)
(* before the caller's messages, or the directive put before the content   *)
(* of the caller's own leading system message.  The transform never fails. *)
(***************************************************************************)
C9_AugmentedNeverFails ==
    (variant = "creative" /\ IFLOW_API_KEY /\ req.kind = "json"
        /\ ~MissingFields(req)) =>
        /\ pc = "awaiting"
        /\ LET orig == req.messages.items
               sent == iflowRequest.messages.items
           IN  /\ sent[1].role = "system"
               /\ IF orig # <<>> /\ orig[1].role = "system"
                  THEN /\ Len(sent) = Len(orig)
                       /\ sent[1].content = EnglishDirective \o orig[1].content
                       /\ \A i \in 2..Len(orig) : sent[i] = orig[i]
                  ELSE sent = <<CREATIVE_WRITING_PROMPT>> \o orig

(***************************************************************************)
(* C10.  When no delta received holds markup, the contents written to the  *)
(* caller, joined, are the contents received, joined.                      *)
(***************************************************************************)
C10_ContentPreserved ==
    (/\ variant = "creative"
     /\ Len(written) = Len(ReceivedData)
     /\ \A i \in EventIndices : ~HasDelimiter(ReceivedContent(ReceivedData[i]))) =>
        ConcatOver([i \in 1..Len(written) |-> EmittedContent(written[i])],
                   EventIndices, Len(written))
            = ConcatOver([i \in 1..Len(written) |-> ReceivedContent(ReceivedData[i])],
                         EventIndices, Len(written))

====
